---- MODULE Spec2Model ----
(***************************************************************************)
(* Model of src/JS/theme.js: the theme controller of the portal.  One      *)
(* browser page is a document (its elements, their nesting, the classes    *)
(* the script sets), the listeners the script has registered, and the      *)
(* click event being dispatched.  All pages of the origin share            *)
(* localStorage.  Every listener of the script is one action; a click is   *)
(* dispatched along its propagation path one listener at a time.           *)
(***************************************************************************)
EXTENDS Integers, Sequences, FiniteSets

VARIABLES
    store,         \* localStorage of the origin: key -> string, or Null when absent
    written,       \* history: the theme of the last selection whose setItem did not throw, or Null
    unsaved,       \* history: the latest selection, when its setItem threw: its theme and
                   \* what the key held then; NoneUnsaved otherwise
    calendarYear,  \* what new Date().getFullYear() returns
    doc,           \* per page: the document served (elements, nesting, data-theme, hooks)
    phase,         \* per page: "loading" (parsed, DOMContentLoaded pending) or "ready"
    bodyClass,     \* per page: document.body.className
    active,        \* per page: the .theme-option elements carrying class is-active
    open,          \* per page: #themeDropdown carries class open
    listeners,     \* per page: the nodes that have a click listener of this script
    yearText,      \* per page: textContent of #year
    ev,            \* per page: the event being dispatched, or the last one dispatched
    togRun         \* history, per page: the run of consecutive toggle clicks

vars == <<store, written, unsaved, calendarYear, doc, phase, bodyClass, active, open,
          listeners, yearText, ev, togRun>>

----------------------------------------------------------------------------
(* JavaScript values.  Strings are TLA+ strings; the two non-string values  *)
(* the script meets are undefined (dataset.theme of an option without a    *)
(* data-theme attribute) and null (getItem of an absent key).              *)

Undefined == "<undefined>"
Null == "<null>"

\* ToString, as applied by setItem(key, v) and by className = v.
ToString(v) == IF v = Undefined THEN "undefined" ELSE IF v = Null THEN "null" ELSE v

\* ToBoolean of a string, null or undefined.
Truthy(v) == v \notin {Null, Undefined, ""}

\* a ?? b: only null and undefined are replaced, the empty string is kept.
Nullish(a, b) == IF a \in {Null, Undefined} THEN b ELSE a

\* a || b
OrElse(a, b) == IF Truthy(a) THEN a ELSE b

Digit(n) == <<"0", "1", "2", "3", "4", "5", "6", "7", "8", "9">>[n + 1]

\* The decimal digits of a natural number, most significant first.
RECURSIVE Digits(_)
Digits(n) == IF n < 10 THEN <<Digit(n)>> ELSE Append(Digits(n \div 10), Digit(n % 10))

\* textContent = <number>: the number's decimal representation.
NumberToString(n) == Digits(n)

STORAGE_KEY == "portal-theme"
DEFAULT == "theme-current"

\* A key of the same origin that belongs to some other script.
OtherKey == "other-key"
Keys == {STORAGE_KEY, OtherKey}

Pages == {"A", "B"}

\* The calendar years a page load may fall in.
Years == {2025, 2026}

----------------------------------------------------------------------------
(* Documents.                                                              *)

HookOrder == <<"recolorMap", "updatePanel", "updateAbbrBadge">>

OptionIds == {"opt1", "opt2"}

\* The option lists a page may carry: for each option its data-theme (Undefined
\* when the attribute is missing) and whether it sits in the dropdown panel.
OptionLists ==
    { [o \in {} |-> [theme |-> "", inPanel |-> TRUE]],
      [o \in OptionIds |-> [theme |-> IF o = "opt1" THEN "theme-current" ELSE "theme-dark",
                            inPanel |-> TRUE]],
      [o \in OptionIds |-> [theme |-> "theme-dark", inPanel |-> (o = "opt1")]],
      [o \in OptionIds |-> [theme |-> IF o = "opt1" THEN "" ELSE Undefined,
                            inPanel |-> TRUE]] }

HookSets == { {}, {"recolorMap", "updateAbbrBadge"}, {"updatePanel"} }

\* The documents the script may be loaded into.  nested: the panel is a child
\* of the toggle control; otherwise both are children of body.
Docs ==
    { [toggle |-> t, dropdown |-> d, year |-> y, nested |-> n, opts |-> ol, hooks |-> h] :
        t \in BOOLEAN, d \in BOOLEAN, y \in BOOLEAN, n \in BOOLEAN,
        ol \in OptionLists, h \in HookSets }

WellFormed(d) == d.nested => (d.toggle /\ d.dropdown)

StandardDoc ==
    [toggle |-> TRUE, dropdown |-> TRUE, year |-> TRUE, nested |-> FALSE,
     opts |-> [o \in OptionIds |-> [theme |-> IF o = "opt1" THEN "theme-current" ELSE "theme-dark",
                                    inPanel |-> TRUE]],
     hooks |-> {}]

\* document.querySelectorAll('.theme-option')
Options(d) == DOMAIN d.opts

\* document.getElementById(id) succeeds
Elements(d) ==
    (IF d.toggle THEN {"themeToggle"} ELSE {})
    \cup (IF d.dropdown THEN {"themeDropdown"} ELSE {})
    \cup (IF d.year THEN {"year"} ELSE {})
    \cup Options(d)

Parent(d, n) ==
    IF n = "body" THEN "document"
    ELSE IF n \in Options(d) THEN (IF d.dropdown /\ d.opts[n].inPanel THEN "themeDropdown" ELSE "body")
    ELSE IF n = "themeDropdown" /\ d.nested THEN "themeToggle"
    ELSE "body"

\* The propagation path of an event: the target, its ancestors, the document.
RECURSIVE Chain(_, _)
Chain(d, n) == IF n = "document" THEN <<"document">> ELSE <<n>> \o Chain(d, Parent(d, n))

InPanel(d, n) == "themeDropdown" \in {Chain(d, n)[i] : i \in 1..Len(Chain(d, n))}

\* document.body.classList for a className without white space: its tokens.
ClassList(c) == IF c = "" THEN <<>> ELSE <<c>>

\* What the served HTML carries before any script has run.
HtmlBodyClass == "page"
HtmlYearText == <<>>
HtmlActive(d) == Options(d) \cap {"opt1"}

NoEvent ==
    [kind |-> "none", target |-> "none", path |-> <<>>, ran |-> <<>>, openBefore |-> FALSE,
     arg |-> Null, storeOk |-> TRUE, storeBefore |-> Null, calls |-> <<>>, escaped |-> FALSE]

----------------------------------------------------------------------------
(* localStorage.  An access either succeeds or throws (storage disabled,   *)
(* quota exceeded); ok is the environment's choice for this access.        *)

\* setItem guarded by a test for an existing value: the first write is kept.
SetItemKeepsFirst(s, k, v, ok) ==
    [store |-> IF ok /\ s[k] = Null THEN [s EXCEPT ![k] = ToString(v)] ELSE s, threw |-> ~ok]

\* setItem that stores nothing.
SetItemDropped(s, k, v, ok) == [store |-> s, threw |-> ~ok]

\* localStorage.setItem(k, v)
SetItem(s, k, v, ok) ==
    [store |-> IF ok THEN [s EXCEPT ![k] = ToString(v)] ELSE s, threw |-> ~ok]

\* localStorage.getItem(k)
GetItem(s, k, ok) == [value |-> IF ok THEN s[k] ELSE Undefined, threw |-> ~ok]

\* No try/catch around the access: the exception leaves the statement.
Uncaught(threw) == threw

\* try { ... } catch (e) {}: whether an exception thrown inside leaves the statement.
Catch(threw) == FALSE

----------------------------------------------------------------------------
(* The three functions of the script, as functions of the page's state.    *)

\* querySelector in place of querySelectorAll: only the first matching option is marked.
applyThemeFirst(d, theme) ==
    LET match == {o \in Options(d) : d.opts[o].theme = theme}
    IN  [bodyClass |-> ToString(theme),
         active |-> IF "opt1" \in match THEN {"opt1"} ELSE match]

\* applyTheme(theme): the body class and the set of options marked is-active.
applyTheme(d, theme) ==
    [bodyClass |-> ToString(theme),
     active |-> {o \in Options(d) : d.opts[o].theme = theme}]

\* The hooks setTheme invokes, in the order it invokes them, each with the body
\* class and the active options the page shows when it is invoked.
CallHooks(d, view) ==
    LET present == SelectSeq(HookOrder, LAMBDA h : h \in d.hooks)
    IN  [i \in 1..Len(present) |->
            [hook |-> present[i], bodyClass |-> view.bodyClass, active |-> view.active]]

\* setTheme with applyTheme inside the try block, after setItem: a throwing
\* write skips it.
setThemeApplyInTry(d, s, view, theme, ok) ==
    LET w == SetItem(s, STORAGE_KEY, theme, ok)
        shown == IF w.threw THEN view ELSE applyTheme(d, theme)
    IN  [store |-> w.store, view |-> shown, calls |-> CallHooks(d, shown),
         escaped |-> Catch(w.threw)]

\* setTheme with the hooks invoked before applyTheme.
setThemeHooksFirst(d, s, view, theme, ok) ==
    LET w == SetItem(s, STORAGE_KEY, theme, ok)
    IN  [store |-> w.store, view |-> applyTheme(d, theme),
         calls |-> CallHooks(d, view), escaped |-> Catch(w.threw)]

\* setTheme(theme) on a page showing view (its body class and active options).
setTheme(d, s, view, theme, ok) ==
    LET w == SetItem(s, STORAGE_KEY, theme, ok)
        t == Catch(w.threw)
    IN  IF t
        THEN [store |-> w.store, view |-> view, calls |-> <<>>, escaped |-> TRUE]
        ELSE [store |-> w.store, view |-> applyTheme(d, theme),
              calls |-> CallHooks(d, applyTheme(d, theme)), escaped |-> FALSE]

\* loadTheme that never reads the store: saved stays DEFAULT.
SavedIgnoresStore(s, ok) == DEFAULT

\* The value loadTheme resolves: var saved = DEFAULT; try { saved = getItem || DEFAULT }
Saved(s, ok) ==
    LET r == GetItem(s, STORAGE_KEY, ok)
    IN  IF r.threw THEN DEFAULT ELSE OrElse(r.value, DEFAULT)

\* loadTheme that writes the value it resolved back to the store.
loadThemePersists(d, s, view, ok) ==
    [store |-> [s EXCEPT ![STORAGE_KEY] = Saved(s, ok)],
     view |-> applyTheme(d, Saved(s, ok)), arg |-> Saved(s, ok),
     calls |-> <<>>, escaped |-> FALSE]

\* loadTheme() on a page showing view.
loadTheme(d, s, view, ok) ==
    LET r == GetItem(s, STORAGE_KEY, ok)
        t == Catch(r.threw)
    IN  IF t
        THEN [store |-> s, view |-> view, arg |-> Null, calls |-> <<>>, escaped |-> TRUE]
        ELSE [store |-> s, view |-> applyTheme(d, Saved(s, ok)), arg |-> Saved(s, ok),
              calls |-> <<>>, escaped |-> FALSE]

----------------------------------------------------------------------------
(* Initialization: the DOMContentLoaded listener.                          *)

\* Only the toggle is tested: the listener goes on when the panel is absent.
ReturnIfNoToggle(d) == ~d.toggle

\* && in place of ||: the listener returns only when both are absent.
ReturnIfBothAbsent(d) == ~d.toggle /\ ~d.dropdown

\* if (!toggle || !dropdown) return;
EarlyReturn(d) == ~d.toggle \/ ~d.dropdown

\* The nodes the listener registers click listeners on.
Wiring(d) ==
    IF EarlyReturn(d) THEN {}
    ELSE {"themeToggle", "document", "themeDropdown"} \cup Options(d)

\* if (yearEl) yearEl.textContent = new Date().getFullYear();
YearUpdate(d, old, y) ==
    IF EarlyReturn(d) THEN old
    ELSE IF d.year THEN NumberToString(y) ELSE old

----------------------------------------------------------------------------
(* Click listeners: what each does to the dropdown and to the propagation. *)

\* classList.add('open') in place of toggle.
ToggleAdds(o) == TRUE

\* dropdown.classList.toggle('open')
ToggleOpen(o) == ~o

\* e.stopPropagation() in the toggle's listener: the rest of the path is dropped.
ToggleRest(path) == <<>>

\* The dropdown's listener without stopPropagation.
DropdownPasses(path) == path

\* e.stopPropagation() in the dropdown's listener.
DropdownRest(path) == <<>>

\* classList.toggle('open') in place of remove in the document's listener.
DocumentToggles(o) == ~o

\* dropdown.classList.remove('open') in the document's listener.
DocumentOpen(o) == FALSE

\* An option's listener that leaves the dropdown as it is.
OptionKeeps(o) == o

\* dropdown.classList.remove('open') in an option's listener.
OptionOpen(o) == FALSE

\* The listeners a click on target reaches, in order, unless one stops it.
ListenerPath(d, ls, target) == SelectSeq(Chain(d, target), LAMBDA n : n \in ls)

\* The targets a user can click: any element, or the page outside all of them.
Targets(d) == Elements(d) \cup {"body"}

Idle(p) == ev[p].path = <<>>

\* The longest run of consecutive toggle clicks that is recorded; a longer run
\* is recorded as a new one.
MaxRun == 2

\* The run of consecutive toggle clicks after a click on target has been dispatched:
\* their number, and whether the dropdown was open before the first of them.
RunAfter(run, target, openBefore) ==
    IF target = "themeToggle"
    THEN IF run.n = 0 \/ run.n >= MaxRun THEN [n |-> 1, open0 |-> openBefore]
         ELSE [n |-> run.n + 1, open0 |-> run.open0]
    ELSE [n |-> 0, open0 |-> FALSE]

----------------------------------------------------------------------------
(* The state machine.                                                      *)

\* What the key may hold when the first page opens: nothing, or what an
\* earlier visit stored.
InitialStored == {Null, "theme-dark", ""}

FreshRun == [n |-> 0, open0 |-> FALSE]

NoneUnsaved == [theme |-> Null, kept |-> Null]

Init ==
    /\ store \in {[k \in Keys |-> IF k = STORAGE_KEY THEN v ELSE "1"] : v \in InitialStored}
    /\ written = Null
    /\ unsaved = NoneUnsaved
    /\ calendarYear \in Years
    /\ doc \in {[p \in Pages |-> IF p = "A" THEN d ELSE StandardDoc] : d \in {x \in Docs : WellFormed(x)}}
    /\ phase = [p \in Pages |-> "loading"]
    /\ bodyClass = [p \in Pages |-> HtmlBodyClass]
    /\ active = [p \in Pages |-> HtmlActive(doc[p])]
    /\ open = [p \in Pages |-> FALSE]
    /\ listeners = [p \in Pages |-> {}]
    /\ yearText = [p \in Pages |-> HtmlYearText]
    /\ ev = [p \in Pages |-> NoEvent]
    /\ togRun = [p \in Pages |-> FreshRun]

\* The page is loaded anew: the browser parses the HTML into a fresh document
\* and runs the script, which registers its DOMContentLoaded listener.
Navigate(p) ==
    /\ Idle(p)
    /\ phase[p] = "ready"
    /\ phase' = [phase EXCEPT ![p] = "loading"]
    /\ bodyClass' = [bodyClass EXCEPT ![p] = HtmlBodyClass]
    /\ active' = [active EXCEPT ![p] = HtmlActive(doc[p])]
    /\ open' = [open EXCEPT ![p] = FALSE]
    /\ listeners' = [listeners EXCEPT ![p] = {}]
    /\ yearText' = [yearText EXCEPT ![p] = HtmlYearText]
    /\ ev' = [ev EXCEPT ![p] = NoEvent]
    /\ togRun' = [togRun EXCEPT ![p] = FreshRun]
    /\ UNCHANGED <<store, written, unsaved, calendarYear, doc>>

\* The DOMContentLoaded listener: loadTheme, the wiring, the year.  oks: the
\* outcomes the read of the store may have (TRUE: it returns, FALSE: it throws).
DOMContentLoadedIn(p, oks) ==
    /\ phase[p] = "loading"
    /\ Idle(p)
    /\ \E ok \in oks :
        LET d == doc[p]
            r == loadTheme(d, store, [bodyClass |-> bodyClass[p], active |-> active[p]], ok)
        IN  /\ store' = r.store
            /\ bodyClass' = [bodyClass EXCEPT ![p] = r.view.bodyClass]
            /\ active' = [active EXCEPT ![p] = r.view.active]
            /\ listeners' = [listeners EXCEPT ![p] = IF r.escaped THEN {} ELSE Wiring(d)]
            /\ yearText' = [yearText EXCEPT ![p] =
                               IF r.escaped THEN @ ELSE YearUpdate(d, @, calendarYear)]
            /\ ev' = [ev EXCEPT ![p] =
                         [NoEvent EXCEPT !.kind = "load", !.arg = r.arg, !.storeOk = ok,
                                         !.storeBefore = store[STORAGE_KEY],
                                         !.calls = r.calls, !.escaped = r.escaped]]
    /\ phase' = [phase EXCEPT ![p] = "ready"]
    /\ togRun' = [togRun EXCEPT ![p] = FreshRun]
    /\ UNCHANGED <<written, unsaved, calendarYear, doc, open>>

DOMContentLoaded(p) == DOMContentLoadedIn(p, BOOLEAN)

\* The user clicks on target: the event is created with its propagation path.
\* A click that reaches no listener is over at once.
Click(p, target) ==
    /\ Idle(p)
    /\ target \in Targets(doc[p])
    /\ LET path == ListenerPath(doc[p], listeners[p], target)
       IN  /\ ev' = [ev EXCEPT ![p] =
                        [NoEvent EXCEPT !.kind = "click", !.target = target, !.path = path,
                                        !.openBefore = open[p]]]
           /\ togRun' = [togRun EXCEPT ![p] =
                            IF path = <<>> THEN RunAfter(@, target, open[p]) ELSE @]
    /\ UNCHANGED <<store, written, unsaved, calendarYear, doc, phase, bodyClass, active, open,
                   listeners, yearText>>

\* One listener has run and left rest of the path: the event record after it,
\* and the run of toggle clicks once the event is over.
Ran(p, node, rest) == [ev[p] EXCEPT !.path = rest, !.ran = Append(@, node)]

Over(p, rest) ==
    togRun' = [togRun EXCEPT ![p] =
                  IF rest = <<>> THEN RunAfter(@, ev[p].target, ev[p].openBefore) ELSE @]

\* toggle.addEventListener('click', ...)
ToggleClick(p) ==
    /\ ~Idle(p)
    /\ Head(ev[p].path) = "themeToggle"
    /\ LET rest == ToggleRest(Tail(ev[p].path))
       IN  /\ ev' = [ev EXCEPT ![p] = Ran(p, "themeToggle", rest)]
           /\ Over(p, rest)
    /\ open' = [open EXCEPT ![p] = ToggleOpen(@)]
    /\ UNCHANGED <<store, written, unsaved, calendarYear, doc, phase, bodyClass, active,
                   listeners, yearText>>

\* document.addEventListener('click', ...)
DocumentClick(p) ==
    /\ ~Idle(p)
    /\ Head(ev[p].path) = "document"
    /\ LET rest == Tail(ev[p].path)
       IN  /\ ev' = [ev EXCEPT ![p] = Ran(p, "document", rest)]
           /\ Over(p, rest)
    /\ open' = [open EXCEPT ![p] = DocumentOpen(@)]
    /\ UNCHANGED <<store, written, unsaved, calendarYear, doc, phase, bodyClass, active,
                   listeners, yearText>>

\* dropdown.addEventListener('click', ...)
DropdownClick(p) ==
    /\ ~Idle(p)
    /\ Head(ev[p].path) = "themeDropdown"
    /\ LET rest == DropdownRest(Tail(ev[p].path))
       IN  /\ ev' = [ev EXCEPT ![p] = Ran(p, "themeDropdown", rest)]
           /\ Over(p, rest)
    /\ UNCHANGED <<store, written, unsaved, calendarYear, doc, phase, bodyClass, active, open,
                   listeners, yearText>>

\* opt.addEventListener('click', ...): setTheme(this.dataset.theme), then close.
\* oks: the outcomes the write to the store may have.
OptionClickIn(p, oks) ==
    /\ ~Idle(p)
    /\ Head(ev[p].path) \in Options(doc[p])
    /\ \E ok \in oks :
        LET d == doc[p]
            opt == Head(ev[p].path)
            theme == d.opts[opt].theme
            r == setTheme(d, store, [bodyClass |-> bodyClass[p], active |-> active[p]], theme, ok)
            rest == Tail(ev[p].path)
        IN  /\ store' = r.store
            /\ written' = IF ok THEN theme ELSE written
            /\ unsaved' = IF ok THEN NoneUnsaved
                          ELSE [theme |-> theme, kept |-> store[STORAGE_KEY]]
            /\ bodyClass' = [bodyClass EXCEPT ![p] = r.view.bodyClass]
            /\ active' = [active EXCEPT ![p] = r.view.active]
            /\ open' = [open EXCEPT ![p] = IF r.escaped THEN @ ELSE OptionOpen(@)]
            /\ ev' = [ev EXCEPT ![p] =
                         [Ran(p, opt, rest) EXCEPT !.arg = theme, !.storeOk = ok,
                                                   !.storeBefore = store[STORAGE_KEY],
                                                   !.calls = r.calls, !.escaped = r.escaped]]
            /\ Over(p, rest)
    /\ UNCHANGED <<calendarYear, doc, phase, listeners, yearText>>

OptionClick(p) == OptionClickIn(p, BOOLEAN)

PageNext(p) ==
    \/ Navigate(p)
    \/ DOMContentLoaded(p)
    \/ \E target \in Targets(doc[p]) : Click(p, target)
    \/ ToggleClick(p)
    \/ DocumentClick(p)
    \/ DropdownClick(p)
    \/ OptionClick(p)

\* One page of the portal, alone on its origin.
Next == PageNext("A")

Spec == Init /\ [][Next]_vars

\* Two pages of the portal open on the same origin, each a document with every
\* element the script looks up; their listeners interleave one at a time.
InitShared == Init /\ doc["A"] = StandardDoc /\ calendarYear = 2026

NextShared == \E p \in Pages : PageNext(p)

SpecShared == InitShared /\ [][NextShared]_vars

\* A click on page p anywhere but on an option that carries no identifier or
\* the empty one.
ClickIdentified(p) ==
    \E target \in Targets(doc[p]) :
        /\ target \in Options(doc[p]) => doc[p].opts[target].theme \notin {Undefined, ""}
        /\ Click(p, target)

\* One page alone on its origin whose localStorage never throws, and on which
\* only options with a non-empty identifier are selected.
NextReliable ==
    \/ Navigate("A")
    \/ DOMContentLoadedIn("A", {TRUE})
    \/ ClickIdentified("A")
    \/ ToggleClick("A")
    \/ DocumentClick("A")
    \/ DropdownClick("A")
    \/ OptionClickIn("A", {TRUE})

SpecReliable == Init /\ [][NextReliable]_vars

----------------------------------------------------------------------------
(* Properties.                                                             *)

Last(q) == q[Len(q)]

RanSet(p) == {ev[p].ran[i] : i \in 1..Len(ev[p].ran)}

\* An option's listener is the listener that has just run on page p.
JustSelected(p) ==
    /\ ev[p].kind = "click"
    /\ ev[p].ran # <<>>
    /\ Last(ev[p].ran) \in Options(doc[p])

\* The DOMContentLoaded listener is the last thing that ran on page p.
JustLoaded(p) == ev[p].kind = "load"

\* A click on page p has been dispatched to the end and nothing ran since.
ClickOver(p) == ev[p].kind = "click" /\ Idle(p)

\* The options of page p whose data-theme is t.
Matching(p, t) == {o \in Options(doc[p]) : doc[p].opts[o].theme = t}

\* C1 as stated: after an option with identifier t has been selected, the store
\* holds t under the fixed key, the body class is t, and the options marked
\* active are exactly those whose identifier is t.
C1_SelectionAlwaysStored ==
    \A p \in Pages :
        (JustSelected(p) /\ ev[p].arg # Undefined) =>
            /\ store[STORAGE_KEY] = ev[p].arg
            /\ bodyClass[p] = ev[p].arg
            /\ active[p] = Matching(p, ev[p].arg)

\* C1 amended: after an option with identifier t has been selected, the body
\* class is t and the options marked active are exactly those whose identifier
\* is t; the store holds t under the fixed key when the write did not throw, and
\* holds what it held before when it threw; no other key is touched.
C1_SelectionFlow ==
    \A p \in Pages :
        (JustSelected(p) /\ ev[p].arg # Undefined) =>
            /\ store[STORAGE_KEY] = (IF ev[p].storeOk THEN ev[p].arg ELSE ev[p].storeBefore)
            /\ store[OtherKey] = "1"
            /\ bodyClass[p] = ev[p].arg
            /\ active[p] = Matching(p, ev[p].arg)

C1_Witness ==
    \E p \in Pages :
        /\ JustSelected(p)
        /\ ev[p].arg = "theme-dark"
        /\ ev[p].storeOk
        /\ ev[p].storeBefore # "theme-dark"
        /\ store[STORAGE_KEY] = "theme-dark"
        /\ bodyClass[p] = "theme-dark"
        /\ active[p] = {"opt2"}

\* C2: loadTheme applies "theme-current" when the key is absent, when it holds
\* the empty string and when reading throws, and applies the stored value
\* unchanged in every other case.
C2_LoadTheme ==
    \A p \in Pages :
        JustLoaded(p) =>
            bodyClass[p] =
                (IF ~ev[p].storeOk \/ ev[p].storeBefore \in {Null, ""}
                 THEN "theme-current"
                 ELSE ev[p].storeBefore)

C2_Witness ==
    \E p \in Pages :
        /\ JustLoaded(p)
        /\ ev[p].storeOk
        /\ ev[p].storeBefore = ""
        /\ bodyClass[p] = "theme-current"

\* C3: when the storage access of setTheme or loadTheme throws, the body class
\* and the active markers are those of the requested (resp. default)
\* identifier, and no exception leaves the listener.
C3_StorageThrows ==
    \A p \in Pages :
        /\ ~ev[p].escaped
        /\ (JustSelected(p) /\ ev[p].arg # Undefined /\ ~ev[p].storeOk) =>
              (bodyClass[p] = ev[p].arg /\ active[p] = Matching(p, ev[p].arg))
        /\ (JustLoaded(p) /\ ~ev[p].storeOk) =>
              (bodyClass[p] = "theme-current" /\ active[p] = Matching(p, "theme-current"))

C3_Witness ==
    \E p \in Pages :
        /\ JustSelected(p)
        /\ ~ev[p].storeOk
        /\ ev[p].arg = "theme-dark"
        /\ store[STORAGE_KEY] # "theme-dark"
        /\ bodyClass[p] = "theme-dark"
        /\ active[p] # {}
        /\ ~ev[p].escaped

\* The last selection whose write did not throw was of a non-empty identifier.
Persisted == written \notin {Null, Undefined, ""}

\* C4 as stated: once an option with non-empty identifier t has been selected
\* with the store writable, the next page load applies t as the body class and
\* marks exactly the options with identifier t.
C4_RoundTripAnyLoad ==
    \A p \in Pages :
        (JustLoaded(p) /\ Persisted) =>
            (bodyClass[p] = written /\ active[p] = Matching(p, written))

\* C4 amended: once an option with non-empty identifier t has been selected with
\* the store writable, a later page load whose read of the store does not throw
\* (no write between) applies t as the body class and marks exactly the options
\* with identifier t; a load whose read throws applies the default.
C4_RoundTrip ==
    \A p \in Pages :
        (JustLoaded(p) /\ Persisted) =>
            LET t == IF ev[p].storeOk THEN written ELSE "theme-current"
            IN  bodyClass[p] = t /\ active[p] = Matching(p, t)

C4_Witness ==
    \E p \in Pages :
        /\ JustLoaded(p)
        /\ ev[p].storeOk
        /\ written = "theme-dark"
        /\ bodyClass[p] = "theme-dark"
        /\ active[p] = {"opt1", "opt2"}

\* C5 as stated: a click outside the dropdown while it is open closes it; a
\* click inside the dropdown while it is open leaves it open and does not reach
\* the document's listener.
C5_InsideNeverCloses ==
    \A p \in Pages :
        (ClickOver(p) /\ ev[p].openBefore) =>
            IF InPanel(doc[p], ev[p].target)
            THEN open[p] /\ "document" \notin RanSet(p)
            ELSE ~open[p]

\* C5 amended: a click outside the dropdown while it is open closes it; a click
\* inside the dropdown while it is open never reaches the document's listener,
\* and leaves the dropdown open unless it is a click on a theme option, which
\* closes it.
C5_OutsideInside ==
    \A p \in Pages :
        (ClickOver(p) /\ ev[p].openBefore) =>
            IF InPanel(doc[p], ev[p].target)
            THEN /\ "document" \notin RanSet(p)
                 /\ open[p] <=> ev[p].target \notin Options(doc[p])
            ELSE ~open[p]

C5_Witness ==
    \E p \in Pages :
        /\ ClickOver(p)
        /\ ev[p].openBefore
        /\ ev[p].target = "themeDropdown"
        /\ ev[p].ran = <<"themeDropdown">>
        /\ open[p]

\* C6: after a run of toggle clicks with nothing between them the dropdown is
\* in the state it had before the run when their number is even and in the
\* other state when it is odd (one click flips, two restore); a toggle click
\* never reaches the document's listener.
C6_ToggleTwice ==
    \A p \in Pages :
        /\ (Idle(p) /\ "themeToggle" \in listeners[p] /\ togRun[p].n > 0) =>
              (open[p] <=> (IF togRun[p].n % 2 = 0 THEN togRun[p].open0 ELSE ~togRun[p].open0))
        /\ (ClickOver(p) /\ ev[p].target = "themeToggle") => "document" \notin RanSet(p)

C6_Witness ==
    \E p \in Pages :
        /\ ClickOver(p)
        /\ ev[p].target = "themeToggle"
        /\ ev[p].ran = <<"themeToggle">>
        /\ togRun[p] = [n |-> 2, open0 |-> TRUE]
        /\ open[p]

\* The listener that ran in this step on page p, "none" when none did.
Stepped(p) ==
    IF Len(ev'[p].ran) = Len(ev[p].ran) + 1 THEN Last(ev'[p].ran) ELSE "none"

\* C7: the dropdown is closed or open and closed in a fresh document; its state
\* changes only by a toggle click (flipped), by a click outside it reaching the
\* document's listener (closed) or by an option's listener (closed).  loadTheme
\* at initialization and clicks inside the dropdown that are not on an option
\* leave it as it is.
C7_DropdownTransitions ==
    /\ [](\A p \in Pages : open[p] \in BOOLEAN /\ (phase[p] = "loading" => ~open[p]))
    /\ [][\A p \in Pages :
            /\ (open'[p] # open[p] /\ phase'[p] = "ready") =>
                  \/ Stepped(p) = "themeToggle"
                  \/ Stepped(p) = "document" /\ ~InPanel(doc[p], ev[p].target) /\ ~open'[p]
                  \/ Stepped(p) \in Options(doc[p]) /\ ~open'[p]
            /\ Stepped(p) = "themeToggle" => open'[p] = ~open[p]
            /\ Stepped(p) = "themeDropdown" => open'[p] = open[p]
            /\ ev'[p].kind = "load" => open'[p] = open[p]
         ]_vars

C7_Witness ==
    \E p \in Pages :
        /\ ClickOver(p)
        /\ ev[p].openBefore
        /\ Last(ev[p].ran) = "document"
        /\ ~open[p]

\* C8: once an option's click listener has run, setTheme has been applied with
\* that option's identifier (body class, active markers, and the store when the
\* write did not throw) and the dropdown is closed, whatever it was before and
\* whether or not the write threw.
C8_OptionClick ==
    \A p \in Pages :
        JustSelected(p) =>
            LET t == doc[p].opts[Last(ev[p].ran)].theme
            IN  t # Undefined =>
                    /\ ev[p].arg = t
                    /\ bodyClass[p] = t
                    /\ active[p] = Matching(p, t)
                    /\ ev[p].storeOk => store[STORAGE_KEY] = t
                    /\ ~open[p]

C8_Witness ==
    \E p \in Pages :
        /\ JustSelected(p)
        /\ ev[p].openBefore
        /\ ~ev[p].storeOk
        /\ ev[p].arg = "theme-dark"
        /\ bodyClass[p] = "theme-dark"
        /\ ~open[p]

\* A click on an option of page p has been dispatched after initialization.
OptionActivated(p) ==
    /\ phase[p] = "ready"
    /\ ClickOver(p)
    /\ ev[p].target \in Options(doc[p])
    /\ doc[p].opts[ev[p].target].theme # Undefined

\* The click on the option ran its listener, which applied the option's identifier.
SetThemeCalled(p) ==
    /\ ev[p].target \in RanSet(p)
    /\ ev[p].arg = doc[p].opts[ev[p].target].theme
    /\ bodyClass[p] = ev[p].arg

\* C9 as stated: after initialization, activating any option of the document
\* calls setTheme with its identifier, also where the toggle control or the
\* dropdown panel is absent.
C9_EveryDocument == \A p \in Pages : OptionActivated(p) => SetThemeCalled(p)

\* C9 amended: after initialization, in a document that holds both the toggle
\* control and the dropdown panel, activating any option calls setTheme with
\* its identifier; where either is absent no option has a listener and
\* activating one runs nothing.
C9_OptionsWired ==
    \A p \in Pages :
        OptionActivated(p) =>
            IF doc[p].toggle /\ doc[p].dropdown
            THEN SetThemeCalled(p)
            ELSE ev[p].ran = <<>> /\ ev[p].arg = Null

C9_Witness ==
    \E p \in Pages :
        /\ OptionActivated(p)
        /\ doc[p].toggle /\ doc[p].dropdown
        /\ ev[p].target = "opt2"
        /\ "opt2" \in RanSet(p)
        /\ bodyClass[p] = "theme-dark"

\* C10: where the document holds the year element, after initialization its
\* text is the current calendar year, whichever other elements exist.
C10_YearShown ==
    \A p \in Pages :
        (phase[p] = "ready" /\ doc[p].year) =>
            yearText[p] = (IF calendarYear = 2025 THEN <<"2", "0", "2", "5">>
                           ELSE <<"2", "0", "2", "6">>)

\* The document of page p lacks the toggle control or the dropdown panel.
Unwired(p) == ~doc[p].toggle \/ ~doc[p].dropdown

\* C11: where the toggle control or the dropdown panel is absent,
\* initialization applies the stored value, or the default, to the body and
\* raises no error, and registers no click listener: afterwards a click on the
\* toggle, the dropdown or anywhere in the document runs nothing and leaves the
\* dropdown as it was.
C11_UnwiredDocument ==
    \A p \in Pages :
        (phase[p] = "ready" /\ Unwired(p)) =>
            /\ ~ev[p].escaped
            /\ listeners[p] = {}
            /\ ~open[p]
            /\ JustLoaded(p) =>
                  bodyClass[p] = (IF ev[p].storeOk /\ ev[p].storeBefore \notin {Null, ""}
                                  THEN ev[p].storeBefore
                                  ELSE "theme-current")
            /\ ClickOver(p) => (ev[p].ran = <<>> /\ open[p] = ev[p].openBefore)
            /\ bodyClass[p] \in {"theme-current", store[STORAGE_KEY]}

C11_Witness ==
    \E p \in Pages :
        /\ phase[p] = "ready"
        /\ doc[p].toggle /\ ~doc[p].dropdown
        /\ ClickOver(p)
        /\ ev[p].target = "themeToggle"
        /\ ev[p].ran = <<>>
        /\ bodyClass[p] = "theme-dark"
        /\ ~open[p]

HookNames == {HookOrder[i] : i \in 1..Len(HookOrder)}

\* The handler that last ran on page p invoked every hook of the page once and
\* no other, each when the page already showed what it shows now.
HooksNotified(p) ==
    /\ ~ev[p].escaped
    /\ \A h \in HookNames :
          Cardinality({i \in 1..Len(ev[p].calls) : ev[p].calls[i].hook = h})
              = (IF h \in doc[p].hooks THEN 1 ELSE 0)
    /\ \A i \in 1..Len(ev[p].calls) :
          /\ ev[p].calls[i].bodyClass = bodyClass[p]
          /\ ev[p].calls[i].active = active[p]

\* C12 as stated: after every theme change the controller makes, by loadTheme
\* as by setTheme, each hook that exists has been invoked exactly once, after the
\* body class and the active markers were updated, and no absent hook was.
C12_EveryThemeChange ==
    \A p \in Pages : (JustLoaded(p) \/ JustSelected(p)) => HooksNotified(p)

\* C12 amended: after every theme change made by setTheme (a selection) each
\* hook that exists has been invoked exactly once, after the body class and the
\* active markers were updated, and an absent hook is skipped without error;
\* loadTheme changes the theme at initialization without invoking any hook.
C12_HooksOnSelection ==
    \A p \in Pages :
        /\ JustSelected(p) => HooksNotified(p)
        /\ JustLoaded(p) => (ev[p].calls = <<>> /\ ~ev[p].escaped)

C12_Witness ==
    \E p \in Pages :
        /\ JustSelected(p)
        /\ doc[p].hooks = {"recolorMap", "updateAbbrBadge"}
        /\ Len(ev[p].calls) = 2
        /\ ev[p].calls[1].hook = "recolorMap"
        /\ ev[p].calls[2].hook = "updateAbbrBadge"
        /\ ev[p].calls[1].bodyClass = "theme-dark"
        /\ bodyClass[p] = "theme-dark"

\* C13 as stated: after initialization the body's class list is exactly one
\* identifier, and an option is marked active if and only if its data identifier
\* equals that body class.
C13_AlwaysOneIdentifier ==
    \A p \in Pages :
        phase[p] = "ready" =>
            /\ Len(ClassList(bodyClass[p])) = 1
            /\ \A o \in Options(doc[p]) :
                  o \in active[p] <=> doc[p].opts[o].theme = bodyClass[p]

\* Every option of the document carries a non-empty data identifier.
IdentifiedOptions(d) == \A o \in Options(d) : d.opts[o].theme \notin {Undefined, ""}

\* C13 amended: in a document whose options each carry a non-empty data
\* identifier, after initialization the body's class list is exactly one
\* identifier, and an option is marked active if and only if its data identifier
\* equals that body class (none when none matches, all that share it).
C13_ActiveMatchesBody ==
    \A p \in Pages :
        (phase[p] = "ready" /\ IdentifiedOptions(doc[p])) =>
            /\ ClassList(bodyClass[p]) = <<bodyClass[p]>>
            /\ bodyClass[p] # HtmlBodyClass
            /\ \A o \in Options(doc[p]) :
                  o \in active[p] <=> doc[p].opts[o].theme = bodyClass[p]

C13_Witness ==
    \E p \in Pages :
        /\ phase[p] = "ready"
        /\ JustSelected(p)
        /\ IdentifiedOptions(doc[p])
        /\ bodyClass[p] = "theme-dark"
        /\ active[p] = {"opt1", "opt2"}

\* The latest selection was of identifier t and its write threw.
Unsaved == unsaved.theme \notin {Null, Undefined}

\* C14 as stated: a selection of t whose write throws leaves the store as it
\* was and shows t on the page; the next page load applies the value stored
\* before, or the default if none was stored, rather than t.
C14_NextLoadStoredValue ==
    \A p \in Pages :
        /\ (JustSelected(p) /\ ~ev[p].storeOk /\ ev[p].arg # Undefined) =>
              (store[STORAGE_KEY] = ev[p].storeBefore /\ bodyClass[p] = ev[p].arg)
        /\ (JustLoaded(p) /\ Unsaved) =>
              bodyClass[p] = (IF unsaved.kept = Null THEN "theme-current" ELSE unsaved.kept)

\* C14 amended: a selection of t whose write throws leaves the store as it was
\* and shows t on the page; the next page load applies the value stored before
\* when its read does not throw and that value is non-empty, and the default
\* otherwise.
C14_FailedWrite ==
    \A p \in Pages :
        /\ (JustSelected(p) /\ ~ev[p].storeOk /\ ev[p].arg # Undefined) =>
              /\ store[STORAGE_KEY] = ev[p].storeBefore
              /\ bodyClass[p] = ev[p].arg
              /\ active[p] = Matching(p, ev[p].arg)
        /\ (JustLoaded(p) /\ Unsaved) =>
              /\ store[STORAGE_KEY] = unsaved.kept
              /\ bodyClass[p] = (IF ev[p].storeOk /\ unsaved.kept \notin {Null, ""}
                                 THEN unsaved.kept
                                 ELSE "theme-current")

C14_Witness ==
    \E p \in Pages :
        /\ JustLoaded(p)
        /\ ev[p].storeOk
        /\ unsaved = [theme |-> "theme-current", kept |-> "theme-dark"]
        /\ store[STORAGE_KEY] = "theme-dark"
        /\ bodyClass[p] = "theme-dark"

\* C15: the store changes only in an option's listener whose setItem did not
\* throw, which sets the fixed key to the selected theme and touches no other
\* key; the key is never removed; loadTheme leaves the store as it is, so with
\* nothing stored the default is applied to the body and the key stays absent.
C15_StoreLifecycle ==
    /\ [][store' # store =>
            \E p \in Pages :
                /\ Stepped(p) \in Options(doc[p])
                /\ ev'[p].storeOk
                /\ store' = [store EXCEPT ![STORAGE_KEY] = ToString(ev'[p].arg)]]_vars
    /\ [][store[STORAGE_KEY] # Null => store'[STORAGE_KEY] # Null]_vars
    /\ [](\A p \in Pages :
            (JustLoaded(p) /\ ev[p].storeBefore = Null) =>
                (store[STORAGE_KEY] = Null /\ bodyClass[p] = "theme-current"))

C15_Witness ==
    \E p \in Pages :
        /\ JustLoaded(p)
        /\ ev[p].storeOk
        /\ ev[p].storeBefore = Null
        /\ store[STORAGE_KEY] = Null
        /\ written = Null
        /\ bodyClass[p] = "theme-current"
        /\ active[p] = {"opt1"}

\* The store holds the theme of the latest selection whose write did not throw.
LastWriteHeld == written # Null => store[STORAGE_KEY] = written

\* A page whose latest click selected a theme shows that theme, whatever the
\* other page has written since.
OwnSelectionShown ==
    \A p \in Pages : (ev[p].kind = "click" /\ ev[p].arg # Null) => bodyClass[p] = ev[p].arg

\* This step is the DOMContentLoaded listener of page p.
LoadStep(p) == phase[p] = "loading" /\ phase'[p] = "ready"

\* This step is a page load or an option's listener of page p itself.
OwnStep(p) == phase'[p] # phase[p] \/ Stepped(p) \in Options(doc[p])

\* Both pages have selected a theme with a writable store, page p after the
\* other: the other page's latest click selected a theme and stored it, and
\* the store holds a different theme, selected since.
BothSelected(p) ==
    /\ written # Null
    /\ \E q \in Pages \ {p} :
          /\ ev[q].kind = "click" /\ ev[q].arg # Null /\ ev[q].storeOk
          /\ written # ev[q].arg

\* C16 as stated: with two pages sharing the store, the store holds the later
\* selection, each page keeps showing what it selected itself and is not
\* updated by the other page's write, and once both pages have selected, the
\* next load of either page applies the later selection.
C16_EveryLoadLaterSelection ==
    /\ [](LastWriteHeld /\ OwnSelectionShown)
    /\ [][\A p \in Pages : bodyClass'[p] # bodyClass[p] => OwnStep(p)]_vars
    /\ [][\A p \in Pages : (LoadStep(p) /\ BothSelected(p)) => bodyClass'[p] = written]_vars

\* C16 amended: with two pages sharing the store, the store holds the later
\* selection, each page keeps showing what it selected itself and is not
\* updated by the other page's write, and the next load of either page applies
\* the later selection when its read of the store does not throw, and the
\* default when it throws.
C16_LastWriteWins ==
    /\ [](LastWriteHeld /\ OwnSelectionShown)
    /\ [][\A p \in Pages : bodyClass'[p] # bodyClass[p] => OwnStep(p)]_vars
    /\ [][\A p \in Pages :
            (LoadStep(p) /\ written # Null) =>
                bodyClass'[p] = (IF ev'[p].storeOk THEN written ELSE "theme-current")]_vars

C16_Witness ==
    /\ ev["A"].kind = "click" /\ ev["A"].arg = "theme-dark" /\ ev["A"].storeOk
    /\ ev["B"].kind = "click" /\ ev["B"].arg = "theme-current" /\ ev["B"].storeOk
    /\ written = "theme-current"
    /\ store[STORAGE_KEY] = "theme-current"
    /\ bodyClass["A"] = "theme-dark"
    /\ bodyClass["B"] = "theme-current"

\* C17 as stated: on a single page whose store never throws and has no other
\* writer, in every state after initialization reached by selections of
\* non-empty identifiers and dropdown events, the body class is the stored
\* value when the key is present and "theme-current" when it is absent.
C17_BodyIsStoredValue ==
    phase["A"] = "ready" =>
        bodyClass["A"] =
            (IF store[STORAGE_KEY] = Null THEN "theme-current" ELSE store[STORAGE_KEY])

\* C17 amended: on such a page, in every such state, the body class is the
\* stored value when the key holds a non-empty value, and "theme-current" when
\* the key is absent or holds the empty string.
C17_BodyFollowsStore ==
    phase["A"] = "ready" =>
        bodyClass["A"] =
            (IF store[STORAGE_KEY] \in {Null, ""} THEN "theme-current" ELSE store[STORAGE_KEY])

C17_Witness ==
    /\ phase["A"] = "ready"
    /\ JustSelected("A")
    /\ ev["A"].storeBefore = ""
    /\ ev["A"].arg = "theme-dark"
    /\ store[STORAGE_KEY] = "theme-dark"
    /\ bodyClass["A"] = "theme-dark"
    /\ open["A"] = FALSE

====
